---- MODULE Spec2Model ----
(***************************************************************************)
(* A model of the XE USD/CAD rate scraper (src/app.py): the RateLimiter,    *)
(* the extraction of the CAD rate from a fetched page, scrape_xe_rate,      *)
(* get_date_range and the two request handlers, /api/scrape and             *)
(* /api/scrape-single.                                                      *)
(*                                                                         *)
(* Text is a sequence of one-character strings, so that substring tests,   *)
(* float() and the two regular expressions are computed on the characters. *)
(* Time is counted in ticks of 2.5 seconds, the unit in which every delay   *)
(* of the rate limiter is a whole number.                                   *)
(***************************************************************************)
EXTENDS Integers, Sequences, FiniteSets, TLC

(***************************************************************************)
(* Bounds of the model                                                      *)
(***************************************************************************)
\* most rows of a fetched page
MaxRows == 2
\* most cells of the table of a fetched page
MaxCells == 3
\* most requests of one run of the outcome scenarios
MaxRequests == 2
\* most requests of one run that checks the pacing
MaxPacedRequests == 4
\* most threads serving requests at once
MaxThreads == 2

(***************************************************************************)
(* Python values                                                            *)
(***************************************************************************)
\* Python's None
None == "None"
\* a key a dict does not have
Missing == "<missing>"

(***************************************************************************)
(* Text                                                                     *)
(***************************************************************************)
Digits == {"0", "1", "2", "3", "4", "5", "6", "7", "8", "9"}

DigitVal(c) ==
    CASE c = "0" -> 0 [] c = "1" -> 1 [] c = "2" -> 2 [] c = "3" -> 3
      [] c = "4" -> 4 [] c = "5" -> 5 [] c = "6" -> 6 [] c = "7" -> 7
      [] c = "8" -> 8 [] c = "9" -> 9

\* 'pat in s'
Contains(s, pat) ==
    \E p \in 1..(Len(s) - Len(pat) + 1) : SubSeq(s, p, p + Len(pat) - 1) = pat

\* s.replace(',', '')
RemoveCommas(s) == SelectSeq(s, LAMBDA c : c # ",")

RECURSIVE StripLeft(_)
StripLeft(s) ==
    IF s # <<>> /\ Head(s) = " " THEN StripLeft(Tail(s)) ELSE s

RECURSIVE StripRight(_)
StripRight(s) ==
    IF s # <<>> /\ s[Len(s)] = " " THEN StripRight(SubSeq(s, 1, Len(s) - 1)) ELSE s

\* str.strip(), which get_text(strip=True) applies to a cell and float() to
\* its argument
Strip(s) == StripRight(StripLeft(s))

RECURSIVE Concat(_)
Concat(ss) == IF ss = <<>> THEN <<>> ELSE Head(ss) \o Concat(Tail(ss))

RECURSIVE DigitsToNat(_)
DigitsToNat(ds) ==
    IF ds = <<>> THEN 0
    ELSE 10 * DigitsToNat(SubSeq(ds, 1, Len(ds) - 1)) + DigitVal(ds[Len(ds)])

RECURSIVE Pow10(_)
Pow10(n) == IF n = 0 THEN 1 ELSE 10 * Pow10(n - 1)

(***************************************************************************)
(* float(): a decimal number is the pair of its digits read as a natural    *)
(* number and the count of digits after the point, reduced so that equal    *)
(* numbers are equal pairs.  NoFloat stands for float() raising ValueError, *)
(* NoRate for cad_rate = None.                                              *)
(***************************************************************************)
NoFloat == [num |-> 0, dec |-> -1]
NoRate == [num |-> 0, dec |-> -2]

\* 'if cad_rate:', lines 137, 139, 143 and 164: None and 0.0 are false
Truthy(rate) == rate.dec >= 0 /\ rate.num # 0

RECURSIVE Reduce(_, _)
Reduce(num, dec) ==
    IF dec > 0 /\ num % 10 = 0 THEN Reduce(num \div 10, dec - 1)
    ELSE [num |-> num, dec |-> dec]

float(s) ==
    LET t == Strip(s)
        points == {p \in 1..Len(t) : t[p] = "."}
        digits == SelectSeq(t, LAMBDA c : c \in Digits)
    IN  IF /\ t # <<>>
           /\ \A p \in 1..Len(t) : t[p] \in Digits \cup {"."}
           /\ Cardinality(points) <= 1
           /\ digits # <<>>
        THEN Reduce(DigitsToNat(digits),
                    IF points = {} THEN 0
                    ELSE Len(t) - (CHOOSE p \in points : TRUE))
        ELSE NoFloat

\* Plausible with the bounds included: 0.5 <= rate <= 2.5
PlausibleInclusive(rate) ==
    /\ rate.dec >= 0
    /\ 5 * Pow10(rate.dec) <= 10 * rate.num
    /\ 10 * rate.num <= 25 * Pow10(rate.dec)

\* 0.5 < rate < 2.5, app.py lines 132 and 158
Plausible(rate) ==
    /\ rate.dec >= 0
    /\ 5 * Pow10(rate.dec) < 10 * rate.num
    /\ 10 * rate.num < 25 * Pow10(rate.dec)

(***************************************************************************)
(* The page: BeautifulSoup(response.text, 'lxml').  A document is its table *)
(* rows in document order, each the texts of its td/th cells, and the text  *)
(* that follows the tables; get_text() is all of its text in order.         *)
(***************************************************************************)
CAD == <<"C", "A", "D">>
CanadianDollar ==
    <<"C", "a", "n", "a", "d", "i", "a", "n", " ", "D", "o", "l", "l", "a", "r">>

\* [cell.get_text(strip=True) for cell in cells], line 123
cell_text(row) == [i \in 1..Len(row) |-> Strip(row[i])]

\* soup.get_text(), line 145
get_text(doc) ==
    Concat([r \in 1..Len(doc.rows) |-> Concat(doc.rows[r])]) \o doc.tail

(***************************************************************************)
(* re.search(mark + r'[^\d]*(\d+\.\d+)', text): the leftmost position where *)
(* the marker is followed by non-digits, digits, a point and digits; the    *)
(* group is the number.  No match (None) is NoMatch: a group is never empty.*)
(***************************************************************************)
NoMatch == <<>>

\* the first position from p on that holds a digit (Len + 1: none)
RECURSIVE SkipNonDigits(_, _)
SkipNonDigits(text, p) ==
    IF p > Len(text) \/ text[p] \in Digits THEN p ELSE SkipNonDigits(text, p + 1)

\* the first position from p on that holds no digit (Len + 1: none)
RECURSIVE SkipDigits(_, _)
SkipDigits(text, p) ==
    IF p > Len(text) \/ text[p] \notin Digits THEN p ELSE SkipDigits(text, p + 1)

MatchAt(text, mark, p) ==
    IF p + Len(mark) - 1 > Len(text) \/ SubSeq(text, p, p + Len(mark) - 1) # mark
    THEN NoMatch
    ELSE LET q == SkipNonDigits(text, p + Len(mark))
             r == SkipDigits(text, q)
             e == SkipDigits(text, r + 1)
         IN  IF q <= Len(text) /\ r <= Len(text) /\ text[r] = "." /\ e > r + 1
             THEN SubSeq(text, q, e - 1)
             ELSE NoMatch

RECURSIVE SearchFrom(_, _, _)
SearchFrom(text, mark, p) ==
    IF p > Len(text) THEN NoMatch
    ELSE LET match == MatchAt(text, mark, p)
         IN  IF match # NoMatch THEN match ELSE SearchFrom(text, mark, p + 1)

re_search(mark, text) == SearchFrom(text, mark, 1)

(***************************************************************************)
(* Method 1: the table scan, lines 119-140                                  *)
(***************************************************************************)
\* for j in range(i+1, len(cell_text)): the first cell from j on that float()
\* parses to a plausible rate, line 129-136
RECURSIVE ScanLater(_, _)
ScanLater(cells, j) ==
    IF j > Len(cells) THEN NoRate
    ELSE LET rate == float(RemoveCommas(cells[j]))
         IN  IF rate # NoFloat /\ Plausible(rate) THEN rate
             ELSE ScanLater(cells, j + 1)

\* for i, text in enumerate(cell_text), lines 126-138
RECURSIVE ScanCells(_, _)
ScanCells(cells, i) ==
    IF i > Len(cells) THEN NoRate
    ELSE IF Contains(cells[i], CAD) \/ Contains(cells[i], CanadianDollar)
         THEN LET cad_rate == ScanLater(cells, i + 1)
              IN  IF Truthy(cad_rate) THEN cad_rate ELSE ScanCells(cells, i + 1)
         ELSE ScanCells(cells, i + 1)

\* for row in rows, lines 121-140
RECURSIVE ScanRows(_, _)
ScanRows(rows, r) ==
    IF r > Len(rows) THEN NoRate
    ELSE LET cad_rate == ScanCells(cell_text(rows[r]), 1)
         IN  IF Truthy(cad_rate) THEN cad_rate ELSE ScanRows(rows, r + 1)

TableScan(doc) == ScanRows(doc.rows, 1)

(***************************************************************************)
(* Method 2: the pattern fallback, lines 143-162                            *)
(***************************************************************************)
patterns == <<CAD, CanadianDollar>>

\* for pattern in patterns, lines 153-162
RECURSIVE TryPatterns(_, _)
TryPatterns(text, k) ==
    IF k > Len(patterns) THEN NoRate
    ELSE LET match == re_search(patterns[k], text)
             rate == float(match)
         IN  IF match # NoMatch /\ Plausible(rate) THEN rate
             ELSE TryPatterns(text, k + 1)

PatternScan(doc) ==
    LET text_content == get_text(doc)
    IN  IF Contains(text_content, CAD) THEN TryPatterns(text_content, 1) ELSE NoRate

\* cad_rate at line 164
ExtractRate(doc) ==
    LET cad_rate == TableScan(doc)
    IN  IF ~Truthy(cad_rate) THEN PatternScan(doc) ELSE cad_rate

(***************************************************************************)
(* Dates.  A JSON value of a request is null (or a missing key), a number,  *)
(* or a string: the empty string, a string of the form Y-M-D with numeric   *)
(* fields y, m, d, or any other text.  A datetime at midnight is its        *)
(* proleptic Gregorian ordinal, 0001-01-01 being day 1.                     *)
(***************************************************************************)
JsonNull == [kind |-> "null", y |-> 0, m |-> 0, d |-> 0]
JsonNumber == [kind |-> "number", y |-> 0, m |-> 0, d |-> 0]
EmptyString == [kind |-> "empty", y |-> 0, m |-> 0, d |-> 0]
OtherText == [kind |-> "text", y |-> 0, m |-> 0, d |-> 0]
DateText(y, m, d) == [kind |-> "ymd", y |-> y, m |-> m, d |-> d]

\* datetime.MAXYEAR
MAXYEAR == 9999

IsLeap(y) == y % 4 = 0 /\ (y % 100 # 0 \/ y % 400 = 0)

DaysInMonth(y, m) ==
    CASE m \in {1, 3, 5, 7, 8, 10, 12} -> 31
      [] m \in {4, 6, 9, 11} -> 30
      [] m = 2 -> IF IsLeap(y) THEN 29 ELSE 28

RECURSIVE DaysBeforeMonth(_, _)
DaysBeforeMonth(y, m) ==
    IF m = 1 THEN 0 ELSE DaysBeforeMonth(y, m - 1) + DaysInMonth(y, m - 1)

DaysBeforeYear(y) ==
    (y - 1) * 365 + (y - 1) \div 4 - (y - 1) \div 100 + (y - 1) \div 400

ToOrdinal(y, m, d) == DaysBeforeYear(y) + DaysBeforeMonth(y, m) + d

\* datetime.max, as a day
MAXORDINAL == ToOrdinal(MAXYEAR, 12, 31)

\* ValueError of strptime
NoDate == 0

\* datetime.strptime(v, '%Y-%m-%d') of a string, lines 233, 234 and 272
strptime(v) ==
    IF /\ v.kind = "ymd"
       /\ v.y \in 1..MAXYEAR
       /\ v.m \in 1..12
       /\ v.d \in 1..DaysInMonth(v.y, v.m)
    THEN ToOrdinal(v.y, v.m, v.d)
    ELSE NoDate

\* current.strftime('%Y-%m-%d'), line 206: the year, month and day of a day
\* number, found as the datetime module finds them
strftime(n) ==
    LET n0 == n - 1
        n400 == n0 \div 146097
        r400 == n0 % 146097
        n100 == r400 \div 36524
        r100 == r400 % 36524
        n4 == r100 \div 1461
        r4 == r100 % 1461
        n1 == r4 \div 365
        r1 == r4 % 365
        year == n400 * 400 + 1 + n100 * 100 + n4 * 4 + n1
        leapyear == n1 = 3 /\ (n4 # 24 \/ n100 = 3)
        month == (r1 + 50) \div 32
        preceding == DaysBeforeMonth(IF leapyear THEN 4 ELSE 1, month)
    IN  IF n1 = 4 \/ n100 = 4 THEN DateText(year - 1, 12, 31)
        ELSE IF preceding > r1
             THEN DateText(year, month - 1,
                           r1 - (preceding - DaysInMonth(IF leapyear THEN 4 ELSE 1, month - 1)) + 1)
             ELSE DateText(year, month, r1 - preceding + 1)

(***************************************************************************)
(* The rate limiter, lines 21-60.  One tick is 2.5 seconds.                 *)
(***************************************************************************)
\* min_delay=2.5
min_delay == 1
\* max_delay=5.0
max_delay == 2
\* burst_limit=5
burst_limit == 5
\* burst_cooldown=20.0
burst_cooldown == 8
\* the 5 of random.uniform(0, 5), line 39
burst_jitter == 2
\* len(user_agents), lines 69-75
NumUserAgents == 5
\* the 90 of 'days_diff > 90', line 243
MaxSpan == 90

\* The clock is kept as the time since last_request_time was set, and stops
\* counting at Horizon, which is above every delay wait() can select: the
\* test 'elapsed < delay' and the difference 'delay - elapsed' are then those
\* of the code.  last_request_time = 0 (line 30) is an elapsed time of
\* Horizon: time.time() is seconds since 1970.
Horizon == burst_cooldown + burst_jitter + 1

\* SelectDelay without the cooldown of line 39
SelectDelayNoBurst(count) == min_delay..max_delay

\* the delays line 39 or line 42 can select for the count after line 35
SelectDelay(count) ==
    IF count % burst_limit = 0
    THEN burst_cooldown..(burst_cooldown + burst_jitter)
    ELSE min_delay..max_delay

\* SleepTime with the test of line 46 reversed
SleepTimeReversed(delay, since) == IF since > delay THEN since - delay ELSE 0

\* lines 45-48: the time slept, given elapsed = time.time() - last_request_time
SleepTime(delay, since) == IF since < delay THEN delay - since ELSE 0

(***************************************************************************)
(* scrape_xe_rate, lines 92-198: the result for a date and what the         *)
(* transport gave.  A transport response is                                 *)
(*   [kind |-> "Timeout"]           requests.exceptions.Timeout             *)
(*   [kind |-> "RequestException"]  any other failure, msg = str(e)         *)
(*   [kind |-> "ok"]                a 2xx page; msg # "" when parsing it    *)
(*                                  raises Exception(msg), else doc is the  *)
(*                                  parsed document                         *)
(***************************************************************************)
NoDoc == [rows |-> <<>>, tail |-> <<>>]
Timeout == [kind |-> "Timeout", msg |-> "", doc |-> NoDoc]
RequestException(msg) == [kind |-> "RequestException", msg |-> msg, doc |-> NoDoc]
ParseFailure(msg) == [kind |-> "ok", msg |-> msg, doc |-> NoDoc]
Page(doc) == [kind |-> "ok", msg |-> "", doc |-> doc]

\* an error message: a fixed prefix and a text
Message(prefix, text) == [prefix |-> prefix, text |-> text]

\* get_headers(), lines 67-89, with user_agents[ua] as the User-Agent
get_headers(ua) ==
    [UserAgent |-> ua, Accept |-> "text/html", AcceptLanguage |-> "en-US,en;q=0.5",
     Connection |-> "keep-alive"]

\* Result with the handler of line 185 before that of line 178: Timeout is a
\* RequestException, and gets its message
ResultTimeoutAsFailure(date_str, headers, resp, cad_rate) ==
    CASE resp.kind \in {"Timeout", "RequestException"} ->
            [date |-> date_str, rate |-> NoRate, status |-> "error",
             error |-> Message("", resp.msg)]
      [] resp.kind = "ok" /\ resp.msg # "" ->
            [date |-> date_str, rate |-> NoRate, status |-> "error",
             error |-> Message("Parsing error: ", resp.msg)]
      [] resp.kind = "ok" /\ resp.msg = "" ->
            IF Truthy(cad_rate)
            THEN [date |-> date_str, rate |-> cad_rate, status |-> "success",
                  error |-> Message("", Missing)]
            ELSE [date |-> date_str, rate |-> NoRate, status |-> "not_found",
                  error |-> Message("", "CAD rate not found in page")]

\* Result that reports the User-Agent it sent when the rate is not found
ResultByUserAgent(date_str, headers, resp, cad_rate) ==
    IF resp.kind = "ok" /\ resp.msg = "" /\ ~Truthy(cad_rate)
    THEN [date |-> date_str, rate |-> NoRate, status |-> "not_found",
          error |-> Message("CAD rate not found in page for ",
                            IF headers.UserAgent = 1 THEN "Chrome" ELSE "other")]
    ELSE IF resp.kind = "ok" /\ resp.msg = ""
    THEN [date |-> date_str, rate |-> cad_rate, status |-> "success",
          error |-> Message("", Missing)]
    ELSE [date |-> date_str, rate |-> NoRate, status |-> "error",
          error |-> Message("", resp.msg)]

\* what scrape_xe_rate(date_str) returns (lines 164-198) when it sent these
\* headers, the transport answered resp and, for a page that parsed, the
\* extraction of lines 117-162 gave cad_rate
Result(date_str, headers, resp, cad_rate) ==
    CASE resp.kind = "Timeout" ->
            [date |-> date_str, rate |-> NoRate, status |-> "error",
             error |-> Message("", "Request timed out")]
      [] resp.kind = "RequestException" ->
            [date |-> date_str, rate |-> NoRate, status |-> "error",
             error |-> Message("", resp.msg)]
      [] resp.kind = "ok" /\ resp.msg # "" ->
            [date |-> date_str, rate |-> NoRate, status |-> "error",
             error |-> Message("Parsing error: ", resp.msg)]
      [] resp.kind = "ok" /\ resp.msg = "" ->
            IF Truthy(cad_rate)
            THEN [date |-> date_str, rate |-> cad_rate, status |-> "success",
                  error |-> Message("", Missing)]
            ELSE [date |-> date_str, rate |-> NoRate, status |-> "not_found",
                  error |-> Message("", "CAD rate not found in page")]

(***************************************************************************)
(* The handlers' validation, lines 224-244 and 265-274.  The outcome is the *)
(* HTTP status and the error; a request that passes has status 200.  An     *)
(* exception no handler catches ends the request with status 500.           *)
(***************************************************************************)
Outcome(status, error) == [status |-> status, error |-> error]

\* 'not x' of a JSON value
Falsy(v) == v.kind \in {"null", "empty"}

ValidateRange(req) ==
    LET start_date == strptime(req.start_date)
        end_date == strptime(req.end_date)
    IN  IF Falsy(req.start_date) \/ Falsy(req.end_date)
        THEN Outcome(400, "Start and end dates are required")
        ELSE IF req.start_date.kind = "number" THEN Outcome(500, "TypeError")
        ELSE IF start_date = NoDate
        THEN Outcome(400, "Invalid date format. Use YYYY-MM-DD")
        ELSE IF req.end_date.kind = "number" THEN Outcome(500, "TypeError")
        ELSE IF end_date = NoDate
        THEN Outcome(400, "Invalid date format. Use YYYY-MM-DD")
        ELSE IF start_date > end_date
        THEN Outcome(400, "Start date must be before end date")
        ELSE IF end_date - start_date > MaxSpan
        THEN Outcome(400, "Date range cannot exceed 90 days to prevent rate limiting issues")
        ELSE Outcome(200, "")

ValidateSingle(req) ==
    IF Falsy(req.start_date) THEN Outcome(400, "Date is required")
    ELSE IF req.start_date.kind = "number" THEN Outcome(500, "TypeError")
    ELSE IF strptime(req.start_date) = NoDate
    THEN Outcome(400, "Invalid date format. Use YYYY-MM-DD")
    ELSE Outcome(200, "")

(***************************************************************************)
(* The state                                                                *)
(***************************************************************************)
VARIABLES
    \* rate_limiter.request_count, line 29
    request_count,
    \* time.time() - rate_limiter.last_request_time, up to Horizon
    elapsed,
    \* the threads serving requests: for each, where it is and its locals
    th,
    \* the requests still to arrive, in order
    inbox,
    \* the responses the transport can give in this run
    pages,
    \* history: the last call of scrape_xe_rate that returned
    prev,
    \* history: the time since the last return of wait(), up to Horizon;
    \* -1 before the first
    sinceReturn,
    \* history: the calls of wait() so far
    calls

vars == <<request_count, elapsed, th, inbox, pages, prev, sinceReturn, calls>>

NoRequest == [endpoint |-> "none", start_date |-> JsonNull, end_date |-> JsonNull]
RangeRequest(s, e) == [endpoint |-> "range", start_date |-> s, end_date |-> e]
SingleRequest(d) == [endpoint |-> "single", start_date |-> d, end_date |-> JsonNull]

\* no response sent yet
NoReply == [status |-> 0, error |-> "", results |-> <<>>, total |-> -1, successful |-> -1]

\* a thread between requests: the locals of a handler that is not running
IdleThread ==
    [pc |-> "idle", req |-> NoRequest, current |-> 0, end_date |-> 0,
     dates |-> <<>>, i |-> 0, results |-> <<>>,
     tmp |-> 0, delay |-> 0, sleep_time |-> 0, reply |-> NoReply,
     waits |-> 0, gets |-> 0, count0 |-> 0]

\* date, resp, result: the date, the transport's answer and the result of
\* that call; count: request_count when it returned (0: no call yet); same:
\* the call before it had the same date and answer; agrees: and the same
\* result
NoPrev ==
    [date |-> JsonNull, resp |-> Timeout,
     result |-> Result(JsonNull, get_headers(0), Timeout, NoRate),
     count |-> 0, same |-> FALSE, agrees |-> FALSE]

Threads == DOMAIN th

\* RateLimiter.__init__, lines 24-31, and the module's globals
InitLimiter ==
    /\ request_count = 0
    /\ elapsed = Horizon
    /\ prev = NoPrev
    /\ sinceReturn = -1
    /\ calls = 0

(***************************************************************************)
(* The handlers                                                             *)
(***************************************************************************)
\* jsonify of lines 254-259
RangeReply(results) ==
    [status |-> 200, error |-> "", results |-> results, total |-> Len(results),
     successful |-> Len(SelectSeq(results, LAMBDA r : r.status = "success"))]

\* jsonify(result), line 277
SingleReply(result) ==
    [status |-> 200, error |-> "", results |-> <<result>>, total |-> -1,
     successful |-> -1]

ErrorReply(outcome) ==
    [status |-> outcome.status, error |-> outcome.error, results |-> <<>>,
     total |-> -1, successful |-> -1]

\* the handler of thread t takes the next request and validates it, lines
\* 224-246 or 265-276: it answers with the error, or goes on to
\* get_date_range (a range) or to scrape_xe_rate (a single date)
Begin(t, outcome) ==
    /\ inbox' = Tail(inbox)
    /\ th' = [th EXCEPT ![t] =
                IF outcome.status # 200
                THEN [IdleThread EXCEPT !.req = Head(inbox),
                                        !.reply = ErrorReply(outcome),
                                        !.count0 = request_count]
                ELSE IF Head(inbox).endpoint = "range"
                THEN [IdleThread EXCEPT !.pc = "dates", !.req = Head(inbox),
                                        !.current = strptime(Head(inbox).start_date),
                                        !.end_date = strptime(Head(inbox).end_date),
                                        !.count0 = request_count]
                ELSE [IdleThread EXCEPT !.pc = "call", !.req = Head(inbox),
                                        !.dates = <<Head(inbox).start_date>>,
                                        !.i = 1,
                                        !.count0 = request_count]]
    /\ UNCHANGED <<request_count, elapsed, pages, prev, sinceReturn, calls>>

scrape_rates(t) ==
    /\ th[t].pc = "idle"
    /\ inbox # <<>>
    /\ Head(inbox).endpoint = "range"
    /\ Begin(t, ValidateRange(Head(inbox)))

scrape_single_rate(t) ==
    /\ th[t].pc = "idle"
    /\ inbox # <<>>
    /\ Head(inbox).endpoint = "single"
    /\ Begin(t, ValidateSingle(Head(inbox)))

\* one turn of the loop of get_date_range, lines 205-207, or its end, lines
\* 208 and 246-249.  Adding a day to datetime.max raises OverflowError, which
\* no handler catches.
get_date_range(t) ==
    /\ th[t].pc = "dates"
    /\ th' = [th EXCEPT ![t] =
                IF th[t].current <= th[t].end_date
                THEN IF th[t].current + 1 > MAXORDINAL
                     THEN [IdleThread EXCEPT !.req = th[t].req,
                              !.reply = ErrorReply(Outcome(500, "OverflowError")),
                              !.count0 = th[t].count0]
                     ELSE [th[t] EXCEPT !.dates = Append(@, strftime(th[t].current)),
                                        !.current = @ + 1]
                ELSE IF th[t].dates = <<>>
                THEN [IdleThread EXCEPT !.req = th[t].req, !.reply = RangeReply(<<>>),
                                        !.count0 = th[t].count0]
                ELSE [th[t] EXCEPT !.pc = "call", !.i = 1]]
    /\ UNCHANGED <<request_count, elapsed, inbox, pages, prev, sinceReturn, calls>>

\* scrape_xe_rate is called (line 251 or 276) and wait() reads request_count,
\* the first half of line 35
wait_load(t) ==
    /\ th[t].pc = "call"
    /\ th' = [th EXCEPT ![t].pc = "incr", ![t].tmp = request_count,
                        ![t].waits = @ + 1]
    /\ calls' = calls + 1
    /\ UNCHANGED <<request_count, elapsed, inbox, pages, prev, sinceReturn>>

\* wait() stores the count, selects the delay and computes the time to
\* sleep, lines 35-48
wait_select(t) ==
    /\ th[t].pc = "incr"
    /\ request_count' = th[t].tmp + 1
    /\ \E delay \in SelectDelay(request_count') :
          th' = [th EXCEPT ![t].pc = "sleep", ![t].delay = delay,
                           ![t].sleep_time = SleepTime(delay, elapsed)]
    /\ UNCHANGED <<elapsed, inbox, pages, prev, sinceReturn, calls>>

\* the sleep is over: wait() sets last_request_time and returns (lines
\* 50-51), and scrape_xe_rate calls the transport (lines 106-110)
wait_return(t) ==
    /\ th[t].pc = "sleep"
    /\ th[t].sleep_time = 0
    /\ elapsed' = 0
    /\ sinceReturn' = 0
    /\ th' = [th EXCEPT ![t].pc = "get", ![t].delay = 0, ![t].tmp = 0,
                        ![t].gets = @ + 1]
    /\ UNCHANGED <<request_count, inbox, pages, prev, calls>>

\* Continue that calls scrape_xe_rate once more for a date whose first fetch
\* did not succeed
ContinueRetry(t, result) ==
    IF result.status # "success" /\ th[t].waits = th[t].i
    THEN th' = [th EXCEPT ![t].pc = "call"]
    ELSE IF th[t].req.endpoint = "single"
    THEN th' = [th EXCEPT ![t] = [IdleThread EXCEPT !.req = th[t].req,
                                     !.reply = SingleReply(result),
                                     !.waits = th[t].waits, !.gets = th[t].gets,
                                     !.count0 = th[t].count0]]
    ELSE IF th[t].i < Len(th[t].dates)
    THEN th' = [th EXCEPT ![t].pc = "call", ![t].i = @ + 1,
                          ![t].results = Append(@, result)]
    ELSE th' = [th EXCEPT ![t] = [IdleThread EXCEPT !.req = th[t].req,
                                     !.reply = RangeReply(Append(th[t].results, result)),
                                     !.waits = th[t].waits, !.gets = th[t].gets,
                                     !.count0 = th[t].count0]]

\* the transport answers: scrape_xe_rate returns its result (lines 110-198)
\* and the handler goes on, lines 252-259 or 277
Continue(t, result) ==
    IF th[t].req.endpoint = "single"
    THEN th' = [th EXCEPT ![t] = [IdleThread EXCEPT !.req = th[t].req,
                                     !.reply = SingleReply(result),
                                     !.waits = th[t].waits, !.gets = th[t].gets,
                                     !.count0 = th[t].count0]]
    ELSE IF th[t].i < Len(th[t].dates)
    THEN th' = [th EXCEPT ![t].pc = "call", ![t].i = @ + 1,
                          ![t].results = Append(@, result)]
    ELSE th' = [th EXCEPT ![t] = [IdleThread EXCEPT !.req = th[t].req,
                                     !.reply = RangeReply(Append(th[t].results, result)),
                                     !.waits = th[t].waits, !.gets = th[t].gets,
                                     !.count0 = th[t].count0]]

get_return(t) ==
    /\ th[t].pc = "get"
    /\ \E resp \in pages :
        \E cad_rate \in {IF resp.kind = "ok" /\ resp.msg = ""
                         THEN ExtractRate(resp.doc) ELSE NoRate} :
        \E ua \in 1..NumUserAgents :
          LET date_str == th[t].dates[th[t].i]
              result == Result(date_str, get_headers(ua), resp, cad_rate)
              same == date_str = prev.date /\ resp = prev.resp /\ prev.count > 0
          IN  /\ Continue(t, result)
              /\ prev' = [date |-> date_str, resp |-> resp, result |-> result,
                          count |-> request_count, same |-> same,
                          agrees |-> result = prev.result]
    /\ UNCHANGED <<request_count, elapsed, inbox, pages, sinceReturn, calls>>

\* 2.5 seconds pass
Tick ==
    /\ (elapsed < Horizon) \/ (\E t \in Threads : th[t].sleep_time > 0)
    /\ elapsed' = IF elapsed < Horizon THEN elapsed + 1 ELSE elapsed
    /\ sinceReturn' = IF sinceReturn \in 0..(Horizon - 1) THEN sinceReturn + 1
                      ELSE sinceReturn
    /\ th' = [t \in Threads |->
                IF th[t].sleep_time > 0
                THEN [th[t] EXCEPT !.sleep_time = @ - 1] ELSE th[t]]
    /\ UNCHANGED <<request_count, inbox, pages, prev, calls>>

Next ==
    \/ \E t \in Threads : scrape_rates(t)
    \/ \E t \in Threads : scrape_single_rate(t)
    \/ \E t \in Threads : get_date_range(t)
    \/ \E t \in Threads : wait_load(t)
    \/ \E t \in Threads : wait_select(t)
    \/ \E t \in Threads : wait_return(t)
    \/ \E t \in Threads : get_return(t)
    \/ Tick

(***************************************************************************)
(* Inputs: pages the site can serve and requests a client can send          *)
(***************************************************************************)
\* texts of cells
Rate13612 == <<"1", ".", "3", "6", "1", "2">>
Rate150 == <<"1", "5", "0", ".", "0">>
Rate129 == <<"1", ".", "2", "9">>
USD == <<"U", "S", "D">>

\* a page whose table has the CAD row
RatePage ==
    Page([rows |-> << <<USD, <<"1">> >>,
                      <<CAD, CanadianDollar, <<" ">> \o Rate13612 \o <<" ">> >> >>,
          tail |-> <<>>])
\* a page without the rate
EmptyPage == Page([rows |-> << <<USD, <<"1">> >> >>, tail |-> <<>>])

\* every kind of outcome of the transport
AllOutcomes ==
    {Timeout, RequestException("404 Client Error: Not Found"),
     ParseFailure("lxml not installed"),
     RatePage, EmptyPage}

\* date values of requests: around the leap day of 2024, a day 91 days
\* after it, the last day of datetime, and values that are no date
Feb28 == DateText(2024, 2, 28)
Feb29 == DateText(2024, 2, 29)
Mar01 == DateText(2024, 3, 1)
May30 == DateText(2024, 5, 30)
LastDay == DateText(MAXYEAR, 12, 31)
Feb29of2023 == DateText(2023, 2, 29)

DateValues ==
    {Feb28, Feb29, May30, LastDay, Feb29of2023, OtherText, EmptyString, JsonNull,
     JsonNumber}

Requests(values) ==
    {RangeRequest(s, e) : s \in values, e \in values}
        \cup {SingleRequest(v) : v \in values}

\* requests that follow a first one
FollowUps ==
    {SingleRequest(Feb29), RangeRequest(Feb29, Feb28), RangeRequest(Feb29, May30)}

\* the sequences of 1 to n requests: the first of First, the others of Rest
Scripts(First, Rest, n) ==
    UNION {{s \in [1..k -> First \cup Rest] :
              s[1] \in First /\ \A j \in 2..k : s[j] \in Rest} : k \in 1..n}

\* one thread serves the requests, one after the other; any outcome of the
\* transport
Init ==
    /\ InitLimiter
    /\ th = [t \in {1} |-> IdleThread]
    /\ pages = AllOutcomes
    /\ inbox \in Scripts(Requests(DateValues), FollowUps, MaxRequests)

Spec == Init /\ [][Next]_vars

(***************************************************************************)
(* Pacing: one thread, requests that make up to twelve calls of wait()      *)
(***************************************************************************)
PacedRequests ==
    {RangeRequest(Feb28, Mar01), SingleRequest(Mar01), RangeRequest(Mar01, Feb28)}

InitPacing ==
    /\ InitLimiter
    /\ th = [t \in {1} |-> IdleThread]
    /\ pages = {RatePage, Timeout}
    /\ inbox \in Scripts(PacedRequests, PacedRequests, MaxPacedRequests)

SpecPacing == InitPacing /\ [][Next]_vars

(***************************************************************************)
(* Ranges at the limits: one request whose dates are around the span of 90  *)
(* days and around the last day of datetime                                 *)
(***************************************************************************)
Dec01 == DateText(2023, 12, 1)
Dec02 == DateText(2023, 12, 2)
Oct02of9999 == DateText(MAXYEAR, 10, 2)

LimitValues ==
    {Dec01, Dec02, Feb29, Mar01, Oct02of9999, LastDay, Feb29of2023, OtherText,
     EmptyString, JsonNull, JsonNumber}

InitRange ==
    /\ InitLimiter
    /\ th = [t \in {1} |-> IdleThread]
    /\ pages = {RatePage}
    /\ inbox \in Scripts(Requests(LimitValues), {}, 1)

SpecRange == InitRange /\ [][Next]_vars

(***************************************************************************)
(* Extraction: one date is fetched from a site that serves one page, any    *)
(* page of up to MaxRows rows that hold up to MaxCells cells                *)
(***************************************************************************)
CellTexts == {CAD, Rate13612, Rate129, Rate150}

Tails ==
    {<<>>,
     <<" ">> \o CAD \o <<" ">> \o Rate129,
     CAD \o <<":", " ", "0", ".", "5">>,
     CanadianDollar \o <<":", " ">> \o Rate13612,
     CAD \o <<" ", "5", " ">> \o CAD \o <<"2", ".", "5">> \o CanadianDollar
         \o <<" ">> \o Rate129}

\* the rows of at most n cells
Rows(n) == UNION {[1..k -> CellTexts] : k \in 0..n}

\* the tables of at most r rows that hold at most n cells
RECURSIVE Tables(_, _)
Tables(r, n) ==
    IF r = 0 THEN {<<>>}
    ELSE {<<>>} \cup UNION {{<<row>> \o rest : rest \in Tables(r - 1, n - Len(row))} :
                              row \in Rows(n)}

Docs == {[rows |-> rs, tail |-> tl] : rs \in Tables(MaxRows, MaxCells), tl \in Tails}

InitExtract ==
    /\ InitLimiter
    /\ th = [t \in {1} |-> IdleThread]
    /\ \E doc \in Docs : pages = {Page(doc)}
    /\ inbox = <<SingleRequest(Mar01)>>

\* the steps of a request for one date: no other call reads the clock
NextExtract ==
    \/ \E t \in Threads : scrape_single_rate(t)
    \/ \E t \in Threads : wait_load(t)
    \/ \E t \in Threads : wait_select(t)
    \/ \E t \in Threads : wait_return(t)
    \/ \E t \in Threads : get_return(t)

SpecExtract == InitExtract /\ [][NextExtract]_vars

(***************************************************************************)
(* Concurrency: the server handles each request in a thread of its own, and *)
(* all threads use the one rate_limiter of line 55                          *)
(***************************************************************************)
InitThreaded ==
    /\ InitLimiter
    /\ th = [t \in 1..MaxThreads |-> IdleThread]
    /\ pages = {RatePage}
    /\ inbox \in Scripts(PacedRequests, PacedRequests, MaxThreads)

SpecThreaded == InitThreaded /\ [][Next]_vars

(***************************************************************************)
(* Properties                                                               *)
(***************************************************************************)
\* a range request that passes the validation the specification states:
\* both dates parse, start <= end, end - start <= 90 days
ValidRange(req) ==
    /\ req.endpoint = "range"
    /\ strptime(req.start_date) # NoDate
    /\ strptime(req.end_date) # NoDate
    /\ strptime(req.start_date) <= strptime(req.end_date)
    /\ strptime(req.end_date) - strptime(req.start_date) <= MaxSpan

\* thread t has answered the request req of the range endpoint
Answered(t) ==
    /\ th[t].pc = "idle"
    /\ th[t].req.endpoint = "range"
    /\ th[t].reply # NoReply

\* the days of a validated request
Days(req) == strptime(req.end_date) - strptime(req.start_date) + 1

\* C1: every validated date range is answered with (end - start + 1)
\* results, the i-th carrying the date start + i days, in ascending order.
RangeReturnsEveryDay ==
    \A t \in Threads :
        Answered(t) /\ ValidRange(th[t].req) =>
            /\ th[t].reply.status = 200
            /\ Len(th[t].reply.results) = Days(th[t].req)
            /\ \A k \in 1..Len(th[t].reply.results) :
                  strptime(th[t].reply.results[k].date)
                      = strptime(th[t].req.start_date) + k - 1

\* Lemma (SpecRange): the same for every validated range that ends before
\* the last day of datetime, 9999-12-31.
RangeReturnsEveryDayBeforeLastDay ==
    \A t \in Threads :
        /\ Answered(t)
        /\ ValidRange(th[t].req)
        /\ strptime(th[t].req.end_date) < MAXORDINAL
        => /\ th[t].reply.status = 200
           /\ Len(th[t].reply.results) = Days(th[t].req)
           /\ \A k \in 1..Len(th[t].reply.results) :
                 strptime(th[t].reply.results[k].date)
                     = strptime(th[t].req.start_date) + k - 1

\* a range of 91 days has been answered
WitnessLongRange ==
    \E t \in Threads :
        /\ Answered(t)
        /\ Days(th[t].req) = MaxSpan + 1
        /\ Len(th[t].reply.results) = MaxSpan + 1

\* C2: with one caller, a call of wait() returns at least min_delay after
\* the call before it returned, whatever time the fetch in between took.
MinSpacing ==
    [][\A t \in Threads :
          (th[t].pc = "sleep" /\ th'[t].pc = "get" /\ sinceReturn >= 0)
              => (sinceReturn >= min_delay /\ elapsed' = 0)]_vars

\* a second call of wait() is about to return exactly min_delay after the
\* first returned
WitnessMinSpacing ==
    \E t \in Threads :
        /\ th[t].pc = "sleep"
        /\ th[t].sleep_time = 0
        /\ request_count = 2
        /\ sinceReturn = min_delay

\* C3: with one caller, a call of wait() whose ordinal is a multiple of
\* burst_limit returns no earlier than burst_cooldown after the call before
\* it returned; every other call selects its delay from
\* [min_delay, max_delay].  The ordinal counts since the limiter was made.
BurstCooldown ==
    [][\A t \in Threads :
          (th[t].pc = "sleep" /\ th'[t].pc = "get") =>
              IF (th[t].tmp + 1) % burst_limit = 0
              THEN sinceReturn >= burst_cooldown /\ th[t].delay >= burst_cooldown
              ELSE th[t].delay \in min_delay..max_delay]_vars

\* the tenth call of the limiter, of a later request, is about to return
\* exactly burst_cooldown after the ninth
WitnessBurstCooldown ==
    \E t \in Threads :
        /\ th[t].pc = "sleep"
        /\ th[t].sleep_time = 0
        /\ th[t].tmp + 1 = 2 * burst_limit
        /\ th[t].count0 > burst_limit
        /\ sinceReturn = burst_cooldown

\* thread t is between the entry and the return of wait()
InWait(t) == th[t].pc \in {"incr", "sleep"}

\* C4: no two calls of scrape_xe_rate are inside wait() of the one limiter
\* at a time, also when requests are served concurrently, and request_count
\* counts every call of wait().
OneFetchAtATime ==
    /\ \A t1, t2 \in Threads : t1 # t2 => ~(InWait(t1) /\ InWait(t2))
    /\ request_count + Cardinality({t \in Threads : th[t].pc = "incr"}) = calls

\* Lemma (SpecThreaded, violated): the spacing of C2 across threads.
MinSpacingAcrossThreads ==
    [][\A t \in Threads :
          (th[t].pc = "sleep" /\ th'[t].pc = "get" /\ sinceReturn >= 0)
              => sinceReturn >= min_delay]_vars

\* every result some thread holds or has sent, and the one of the last call
AllResults ==
    UNION {{th[t].results[k] : k \in 1..Len(th[t].results)}
              \cup {th[t].reply.results[k] : k \in 1..Len(th[t].reply.results)} :
           t \in Threads}
        \cup (IF prev.count > 0 THEN {prev.result} ELSE {})

\* C5: a call of scrape_xe_rate returns, never raises, one result with the
\* date given and a status that follows the outcome: a rate extracted gives
\* success with that rate, none gives not_found, a timeout gives error
\* "Request timed out", any other failure of the transport gives error with
\* its message, any other exception gives error "Parsing error: " and the
\* message.  The rate is present exactly when the status is success.
ResultShape ==
    /\ \A r \in AllResults :
          /\ r.status \in {"success", "not_found", "error"}
          /\ r.rate # NoRate <=> r.status = "success"
    /\ \A t \in Threads :
          th[t].pc = "idle" /\ th[t].waits > 0 =>
              th[t].reply.status = 200 /\ Len(th[t].reply.results) = th[t].waits
    /\ prev.count > 0 =>
          /\ prev.result.date = prev.date
          /\ prev.resp.kind = "Timeout" =>
                /\ prev.result.status = "error"
                /\ prev.result.error = Message("", "Request timed out")
          /\ prev.resp.kind = "RequestException" =>
                /\ prev.result.status = "error"
                /\ prev.result.error = Message("", prev.resp.msg)
          /\ prev.resp.kind = "ok" /\ prev.resp.msg # "" =>
                /\ prev.result.status = "error"
                /\ prev.result.error = Message("Parsing error: ", prev.resp.msg)
          /\ prev.resp.kind = "ok" /\ prev.resp.msg = "" =>
                IF ExtractRate(prev.resp.doc) # NoRate
                THEN /\ prev.result.status = "success"
                     /\ prev.result.rate = ExtractRate(prev.resp.doc)
                ELSE prev.result.status = "not_found"

\* a range of two dates is answered: a rate for the first, a timeout for the
\* second
WitnessResultShape ==
    \E t \in Threads :
        /\ Answered(t)
        /\ th[t].reply.total = 2
        /\ th[t].reply.results[1].status = "success"
        /\ th[t].reply.results[2].error = Message("", "Request timed out")
        /\ prev.resp = Timeout

\* C6: one bad date never aborts a range: every validated range request is
\* answered with the full list of results, one per date in order, whatever
\* the outcome of each date; total is the number of dates and successful the
\* number of results with status success.
BadDateNeverAborts ==
    \A t \in Threads :
        Answered(t) /\ ValidRange(th[t].req) =>
            LET reply == th[t].reply
            IN  /\ reply.status = 200
                /\ reply.total = Days(th[t].req)
                /\ Len(reply.results) = reply.total
                /\ reply.successful
                       = Cardinality({k \in 1..Len(reply.results) :
                                         reply.results[k].status = "success"})
                /\ \A k \in 1..Len(reply.results) :
                      reply.results[k].date
                          = strftime(strptime(th[t].req.start_date) + k - 1)

\* Lemma (Spec): the same for every validated range that ends before the
\* last day of datetime.
BadDateNeverAbortsBeforeLastDay ==
    \A t \in Threads :
        /\ Answered(t)
        /\ ValidRange(th[t].req)
        /\ strptime(th[t].req.end_date) < MAXORDINAL
        => LET reply == th[t].reply
           IN  /\ reply.status = 200
               /\ reply.total = Days(th[t].req)
               /\ Len(reply.results) = reply.total
               /\ reply.successful
                      = Cardinality({k \in 1..Len(reply.results) :
                                        reply.results[k].status = "success"})
               /\ \A k \in 1..Len(reply.results) :
                     reply.results[k].date
                         = strftime(strptime(th[t].req.start_date) + k - 1)

\* a range whose first date failed is answered with the rate of the second
WitnessBadDate ==
    \E t \in Threads :
        /\ Answered(t)
        /\ th[t].reply.total = 2
        /\ th[t].reply.successful = 1
        /\ th[t].reply.results[1].status = "error"
        /\ th[t].reply.results[2].status = "success"

\* C7: a range request with a missing date, an unparseable date, start after
\* end or a span above 90 days is rejected with a validation error (400)
\* before any fetch: it is answered without a call of wait() or of the
\* transport, and request_count is what it was when the request came.
RejectedWithValidationError ==
    \A t \in Threads :
        Answered(t) /\ ~ValidRange(th[t].req) =>
            /\ th[t].reply.status = 400
            /\ th[t].reply.results = <<>>
            /\ th[t].waits = 0
            /\ th[t].gets = 0
            /\ request_count = th[t].count0

\* Lemma (Spec): a range request that is not valid is answered at once, with
\* 400 when neither date is a number, after no call of wait() or of the
\* transport and with the pacing state as it was; and no thread is ever past
\* the validation with a range that is not valid.
RejectedBeforeFetch ==
    [][/\ (inbox' # inbox /\ Head(inbox).endpoint = "range"
              /\ ~ValidRange(Head(inbox))) =>
             /\ request_count' = request_count
             /\ elapsed' = elapsed
             /\ calls' = calls
             /\ \A t \in Threads :
                   th'[t] # th[t] =>
                       /\ th'[t].pc = "idle"
                       /\ th'[t].req = Head(inbox)
                       /\ th'[t].reply.status \in {400, 500}
                       /\ (Head(inbox).start_date.kind # "number"
                              /\ Head(inbox).end_date.kind # "number")
                            => th'[t].reply.status = 400
                       /\ th'[t].reply.results = <<>>
                       /\ th'[t].waits = 0
                       /\ th'[t].gets = 0
       /\ \A t \in Threads :
             th'[t].pc # "idle" /\ th'[t].req.endpoint = "range"
                 => ValidRange(th'[t].req)]_vars

\* after the limiter has paced a request, a range of 91 days is rejected
WitnessRejected ==
    \E t \in Threads :
        /\ Answered(t)
        /\ th[t].req = RangeRequest(Feb29, May30)
        /\ th[t].reply.status = 400
        /\ th[t].waits = 0
        /\ request_count > 0

\* C8: no retries: the k-th date of an invocation is reached after exactly
\* k - 1 calls of wait() and of the transport, its fetch makes one call of
\* each, request_count grows by one per date, and the answer holds each date
\* once.
NoRetries ==
    \A t \in Threads :
        LET r == th[t]
            grown == request_count - r.count0
        IN  /\ r.gets <= r.waits
            /\ r.pc = "call" => r.waits = r.i - 1 /\ r.gets = r.i - 1 /\ grown = r.i - 1
            /\ r.pc = "incr" => r.waits = r.i /\ r.gets = r.i - 1 /\ grown = r.i - 1
            /\ r.pc = "sleep" => r.waits = r.i /\ r.gets = r.i - 1 /\ grown = r.i
            /\ r.pc = "get" => r.waits = r.i /\ r.gets = r.i /\ grown = r.i
            /\ r.pc \in {"call", "incr", "sleep", "get"} /\ r.req.endpoint = "range"
                   => Len(r.results) = r.i - 1
            /\ r.pc = "idle" /\ r.reply.status = 200 =>
                   /\ r.waits = Len(r.reply.results)
                   /\ r.gets = Len(r.reply.results)
                   /\ grown = Len(r.reply.results)
                   /\ \A j, k \in 1..Len(r.reply.results) :
                         j # k => r.reply.results[j].date # r.reply.results[k].date

\* a range of two dates, neither with a rate, is answered after two calls
WitnessNoRetries ==
    \E t \in Threads :
        /\ Answered(t)
        /\ th[t].reply.total = 2
        /\ th[t].reply.successful = 0
        /\ th[t].waits = 2
        /\ th[t].gets = 2

\* C9: two calls of scrape_xe_rate for the same date to which the transport
\* gives the same answer return the same result, whatever the pacing state
\* and the headers of each.
SameAnswerSameResult == prev.same => prev.agrees

\* a date is fetched again by a later request, with the same answer
WitnessSameAnswer ==
    /\ prev.same
    /\ prev.agrees
    /\ prev.result.status = "not_found"
    /\ prev.count = 3

\* 0.5 < rate < 2.5, for the rate num / 10^dec
StrictlyInside(rate) ==
    /\ 2 * rate.num > Pow10(rate.dec)
    /\ 2 * rate.num < 5 * Pow10(rate.dec)

\* the number a cell holds, or NoFloat
CellValue(cell) == float(SelectSeq(Strip(cell), LAMBDA c : c # ","))

\* the places <<r, i, j>> of a document where cell i of row r holds a marker
\* and the later cell j of that row a value strictly inside (0.5, 2.5)
Candidates(doc) ==
    {p \in (1..Len(doc.rows)) \X (1..MaxCells + 1) \X (1..MaxCells + 1) :
        /\ p[2] < p[3]
        /\ p[3] <= Len(doc.rows[p[1]])
        /\ \/ Contains(Strip(doc.rows[p[1]][p[2]]), CAD)
           \/ Contains(Strip(doc.rows[p[1]][p[2]]), CanadianDollar)
        /\ CellValue(doc.rows[p[1]][p[3]]) # NoFloat
        /\ StrictlyInside(CellValue(doc.rows[p[1]][p[3]]))}

\* p is before q: an earlier row, or the same row and an earlier marker, or
\* the same marker and an earlier cell
Before(p, q) ==
    \/ p[1] < q[1]
    \/ p[1] = q[1] /\ p[2] < q[2]
    \/ p[1] = q[1] /\ p[2] = q[2] /\ p[3] <= q[3]

\* the value the fallback accepts: the match of the CAD pattern, else that
\* of the Canadian Dollar pattern, when strictly inside (0.5, 2.5)
FallbackValues(doc) ==
    LET text == get_text(doc)
        first == re_search(CAD, text)
        second == re_search(CanadianDollar, text)
    IN  IF ~Contains(text, CAD) THEN {}
        ELSE IF first # NoMatch /\ StrictlyInside(float(first)) THEN {float(first)}
        ELSE IF second # NoMatch /\ StrictlyInside(float(second)) THEN {float(second)}
        ELSE {}

====
